---- MODULE Spec2Model ----
(***************************************************************************)
(* ScholarTrack: a browser-resident score tracker.  The model covers the   *)
(* React state of App (src/App.tsx), the derived metrics, the chart data   *)
(* shaping (src/components/Charts.tsx), the persistence effect and the     *)
(* insight requester (services/geminiService).                             *)
(*                                                                         *)
(* Numbers are JavaScript doubles in the program.  Score values are whole  *)
(* numbers here (every whole number satisfies the form's step="0.5"), and  *)
(* the two places where double rounding decides the result, the quotient   *)
(* value/max and its product with 100, are computed bit by bit as IEEE-754 *)
(* binary64 computes them.                                                 *)
(***************************************************************************)
EXTENDS Integers, Sequences, FiniteSets, TLC

VARIABLES subjects, view, isAddSubjectModalOpen, isAddScoreModalOpen,
          aiInsight, isAiLoading, newSubjectName, newScore,
          localStorage, apiKey, inflight, nextId, last

vars == <<subjects, view, isAddSubjectModalOpen, isAddScoreModalOpen,
          aiInsight, isAiLoading, newSubjectName, newScore,
          localStorage, apiKey, inflight, nextId, last>>

----------------------------------------------------------------------------
(* Bounds of the exploration *)

\* identifiers handed out by crypto.randomUUID() are 1 .. MaxId - 1
MaxId == 3

----------------------------------------------------------------------------
(* JavaScript values that are not numbers or ordinary strings *)

\* Number.NaN, the result of parseFloat('')
NaN == -999

\* a numeric property of Partial<Score> that was never assigned
UndefinedNum == -998

\* JSON null, what JSON.stringify writes for NaN
JNull == -997

\* Number.POSITIVE_INFINITY and Number.NEGATIVE_INFINITY, from a division by 0
Infinity == -996

NegInfinity == -995

\* a string property that was never assigned
UndefinedStr == "<undefined>"

IsNumber(x) == x \notin {NaN, UndefinedNum, JNull, Infinity, NegInfinity}

----------------------------------------------------------------------------
(* types.ts *)

SUBJECT_COLORS ==
  << "bg-blue-500", "bg-emerald-500", "bg-violet-500", "bg-rose-500",
     "bg-amber-500", "bg-cyan-500", "bg-fuchsia-500", "bg-indigo-500" >>

\* the null of useState<AIInsight | null>(null)
Null == [null |-> TRUE]

Dashboard == [type |-> "dashboard"]

SubjectView(id) == [type |-> "subject", subjectId |-> id]

----------------------------------------------------------------------------
(* IEEE-754 binary64 arithmetic, as far as the percentage expressions use  *)
(* it.  A positive double is [m, e]: m = <<1, l1, l2, l3, l4>> is the      *)
(* 53-bit significand, its leading bit followed by four 13-bit limbs, and  *)
(* the value is (m / 2^52) * 2^e.  Results are rounded to nearest, ties to *)
(* even, as the hardware rounds them.                                      *)

\* bits in a limb of the significand
LimbBits == 13

RECURSIVE Pow2(_)
Pow2(k) == IF k = 0 THEN 1 ELSE 2 * Pow2(k - 1)

Limb == Pow2(LimbBits)

\* scale n/d by powers of two until 1 <= n/d < 2
RECURSIVE Normalize(_, _, _)
Normalize(n, d, e) ==
  IF n >= 2 * d THEN Normalize(n, 2 * d, e + 1)
  ELSE IF n < d THEN Normalize(2 * n, d, e - 1)
  ELSE [n |-> n, d |-> d, e |-> e]

\* the significand plus one unit in the last place; a carry out of the
\* leading bit gives 2.0, which is 1.0 with the exponent raised
IncSignificand(m, e) ==
  LET c4 == m[5] + 1
      c3 == m[4] + c4 \div Limb
      c2 == m[3] + c3 \div Limb
      c1 == m[2] + c2 \div Limb
  IN  IF c1 \div Limb = 1
      THEN [m |-> <<1, 0, 0, 0, 0>>, e |-> e + 1]
      ELSE [m |-> <<1, c1 % Limb, c2 % Limb, c3 % Limb, c4 % Limb>>, e |-> e]

\* round to 53 bits given the first dropped bit and whether any later
\* dropped bit is set
RoundNearestEven(m, guard, sticky, e) ==
  IF guard = 1 /\ (sticky \/ m[5] % 2 = 1)
  THEN IncSignificand(m, e)
  ELSE [m |-> m, e |-> e]

\* the double a / b for whole numbers a > 0, b > 0
FloatDiv(a, b) ==
  LET nz == Normalize(a, b, 0)
      d  == nz.d
      r0 == nz.n - d
      l1 == (r0 * Limb) \div d
      r1 == (r0 * Limb) % d
      l2 == (r1 * Limb) \div d
      r2 == (r1 * Limb) % d
      l3 == (r2 * Limb) \div d
      r3 == (r2 * Limb) % d
      l4 == (r3 * Limb) \div d
      r4 == (r3 * Limb) % d
      g  == IF 2 * r4 >= d THEN 1 ELSE 0
  IN  RoundNearestEven(<<1, l1, l2, l3, l4>>, g, 2 * r4 - g * d > 0, nz.e)

\* the double x * k for a whole number k with 2 <= k < 2^LimbBits that is
\* no power of two
FloatMul(x, k) ==
  LET v4  == x.m[5] * k
      v3  == x.m[4] * k + v4 \div Limb
      v2  == x.m[3] * k + v3 \div Limb
      v1  == x.m[2] * k + v2 \div Limb
      top == k + v1 \div Limb
      p   == <<v1 % Limb, v2 % Limb, v3 % Limb, v4 % Limb>>
      \* the product has s bits more than 53
      s   == CHOOSE i \in 1..LimbBits : Pow2(i) <= top /\ top < Pow2(i + 1)
      lo  == Pow2(s)
      hi  == Pow2(LimbBits - s)
      q1  == (top % lo) * hi + p[1] \div lo
      q2  == (p[1] % lo) * hi + p[2] \div lo
      q3  == (p[2] % lo) * hi + p[3] \div lo
      q4  == (p[3] % lo) * hi + p[4] \div lo
      dropped == p[4] % lo
      g   == dropped \div Pow2(s - 1)
  IN  RoundNearestEven(<<1, q1, q2, q3, q4>>, g,
                       dropped % Pow2(s - 1) > 0, x.e + s)

\* the whole part of a positive double below 2^26
Trunc(x) ==
  IF x.e < 0 THEN 0
  ELSE Pow2(x.e) + (x.m[2] * Limb + x.m[3]) \div Pow2(2 * LimbBits - x.e)

\* the fraction of a positive double below 2^25 compared with one half:
\* -1 below, 0 equal, 1 above
FracVsHalf(x) ==
  IF x.e < -1 THEN -1
  ELSE LET h    == 2 * LimbBits - 1 - x.e
           top  == x.m[2] * Limb + x.m[3]
           bit  == IF x.e = -1 THEN 1 ELSE (top \div Pow2(h)) % 2
           rest == IF x.e = -1
                   THEN top + x.m[4] + x.m[5]
                   ELSE (top % Pow2(h)) + x.m[4] + x.m[5]
       IN  IF bit = 0 THEN -1 ELSE IF rest = 0 THEN 0 ELSE 1

\* Math.round of a positive double: the nearest integer, ties upwards
MathRound(x) == Trunc(x) + (IF FracVsHalf(x) >= 0 THEN 1 ELSE 0)

\* Math.round of the negative double -x: ties upwards, that is towards zero
MathRoundNeg(x) == 0 - (Trunc(x) + (IF FracVsHalf(x) > 0 THEN 1 ELSE 0))

\* Math.round((a / b) * 100) for whole numbers a and b > 0
RoundedPercent(a, b) ==
  IF a = 0 THEN 0
  ELSE IF a > 0 THEN MathRound(FloatMul(FloatDiv(a, b), 100))
  ELSE MathRoundNeg(FloatMul(FloatDiv(0 - a, b), 100))

\* round(100 * a / b) in exact arithmetic, ties upwards, for a >= 0, b > 0
ExactRoundedPercent(a, b) == (200 * a + b) \div (2 * b)

----------------------------------------------------------------------------
(* JavaScript number operators on the values above *)

\* ToNumber: null counts as 0, undefined as NaN
ToNumber(x) == IF x = JNull THEN 0 ELSE IF x = UndefinedNum THEN NaN ELSE x

\* sum + x in a reduce over numeric fields
Plus(a, b) ==
  LET x == ToNumber(a)
      y == ToNumber(b)
  IN  IF x = NaN \/ y = NaN THEN NaN
      ELSE IF {x, y} = {Infinity, NegInfinity} THEN NaN
      ELSE IF Infinity \in {x, y} THEN Infinity
      ELSE IF NegInfinity \in {x, y} THEN NegInfinity
      ELSE x + y

\* Math.round((a / b) * 100) for any two numeric fields
PercentOf(a, b) ==
  LET x == ToNumber(a)
      y == ToNumber(b)
  IN  IF ~IsNumber(x) \/ ~IsNumber(y) THEN NaN
      ELSE IF y = 0
           THEN (IF x = 0 THEN NaN ELSE IF x > 0 THEN Infinity ELSE NegInfinity)
      ELSE IF y > 0 THEN RoundedPercent(x, y)
      ELSE RoundedPercent(0 - x, 0 - y)

\* Math.round(sum / n) for a whole number sum and a count n >= 1.  The
\* quotient of two small whole numbers is within 2^-53 of the exact one and
\* exact when it is a half, so the double rounds as the exact quotient does.
RoundedMean(sum, n) ==
  IF ~IsNumber(sum) THEN sum ELSE (2 * sum + n) \div (2 * n)

\* x > 0 as JavaScript compares
GreaterThanZero(x) ==
  LET v == ToNumber(x)
  IN  v = Infinity \/ (IsNumber(v) /\ v > 0)

----------------------------------------------------------------------------
(* Sequence helpers: Array.prototype.filter, map and reduce *)

MapSeq(seq, F(_)) == [i \in 1..Len(seq) |-> F(seq[i])]

\* nums.reduce((sum, x) => sum + x, 0)
RECURSIVE SumSeq(_)
SumSeq(nums) ==
  IF nums = <<>> THEN 0
  ELSE Plus(SumSeq(SubSeq(nums, 1, Len(nums) - 1)), nums[Len(nums)])

SumField(seq, Field(_)) == SumSeq(MapSeq(seq, Field))

Range(seq) == {seq[i] : i \in 1..Len(seq)}

----------------------------------------------------------------------------
(* Derived metrics *)

ScoreMax(sc) == sc.max

ScoreValue(sc) == sc.value

\* App.tsx calculateSubjectAverage
calculateSubjectAverage(subject) ==
  IF Len(subject.scores) = 0 THEN 0
  ELSE LET totalMax   == SumField(subject.scores, ScoreMax)
           totalScore == SumField(subject.scores, ScoreValue)
       IN  IF GreaterThanZero(totalMax) THEN PercentOf(totalScore, totalMax)
           ELSE 0

\* every subject counts towards the mean
HasScoresOrNot(s) == TRUE

HasScores(s) == Len(s.scores) > 0

\* App.tsx overallAverage, as a function of the subject list
overallAverageOf(list) ==
  LET subjectsWithScores == SelectSeq(list, HasScores)
  IN  IF Len(subjectsWithScores) = 0 THEN 0
      ELSE RoundedMean(SumField(subjectsWithScores, calculateSubjectAverage),
                       Len(subjectsWithScores))

overallAverage == overallAverageOf(subjects)

\* the percentage of one score: App.tsx score list, Charts.tsx trend chart
scorePercentage(sc) == PercentOf(sc.value, sc.max)

\* new Date(date).getTime() of the text of a date input, counted in days
\* since 1970-01-01 (the time is a whole number of days for YYYY-MM-DD);
\* NaN for a text that is no date
getTime(date) ==
  CASE date = "2024-01-15" -> 19737
    [] date = "2024-02-10" -> 19763
    [] date = "2024-03-01" -> 19783
    [] OTHER -> NaN

\* the comparator of the trend chart: oldest first
oldestFirst(a, b) ==
  IF IsNumber(getTime(a.date)) /\ IsNumber(getTime(b.date))
  THEN getTime(a.date) - getTime(b.date)
  ELSE NaN

\* the comparator of the score list: (a, b) => time of b - time of a
newestFirst(a, b) ==
  IF IsNumber(getTime(a.date)) /\ IsNumber(getTime(b.date))
  THEN getTime(b.date) - getTime(a.date)
  ELSE NaN

\* Array.prototype.sort with newestFirst: the sort is stable and takes a
\* comparator result of NaN as 0
RECURSIVE sortNewestFirst(_)
sortNewestFirst(arr) ==
  IF Len(arr) = 0 THEN <<>>
  ELSE LET rest == sortNewestFirst(SubSeq(arr, 1, Len(arr) - 1))
           x    == arr[Len(arr)]
           v(y) == IF IsNumber(newestFirst(y, x)) THEN newestFirst(y, x)
                   ELSE 0
           k    == Cardinality({i \in 1..Len(rest) : v(rest[i]) <= 0})
       IN  SubSeq(rest, 1, k) \o <<x>> \o SubSeq(rest, k + 1, Len(rest))

\* the score list of the detail view: the rows it shows, and the scores
\* array of the subject after the render ([...scores] is sorted, not scores)
renderScoreList(scores) ==
  [rows |-> sortNewestFirst(scores), scores |-> scores]

\* Charts.tsx OverviewBarChart: the average of one bar before the filter
barAverage(sub) ==
  LET totalMax   == SumField(sub.scores, ScoreMax)
      totalScore == SumField(sub.scores, ScoreValue)
  IN  IF GreaterThanZero(totalMax) THEN PercentOf(totalScore, totalMax) ELSE 0

----------------------------------------------------------------------------
(* Persistence: localStorage and JSON.  A JSON text is modelled by the    *)
(* value it denotes: an array is a sequence, an object a function from its *)
(* keys.  JSON.stringify leaves out a property whose value is undefined    *)
(* and writes null for a number that is not finite.                        *)

StorageKey == "scholarTrack_subjects"

ScoreToJSON(sc) ==
  [k \in {"id", "title", "value", "max", "date"}
         \cup (IF sc.notes = UndefinedStr THEN {} ELSE {"notes"}) |->
     CASE k = "id"    -> sc.id
       [] k = "title" -> sc.title
       [] k = "value" -> (IF IsNumber(sc.value) THEN sc.value ELSE JNull)
       [] k = "max"   -> (IF IsNumber(sc.max) THEN sc.max ELSE JNull)
       [] k = "date"  -> sc.date
       [] k = "notes" -> sc.notes]

SubjectToJSON(s) ==
  [id |-> s.id, name |-> s.name, color |-> s.color,
   scores |-> MapSeq(s.scores, ScoreToJSON)]

JSONstringify(list) == MapSeq(list, SubjectToJSON)

\* a property the object lacks reads as undefined
ScoreFromJSON(j) ==
  [id |-> j["id"], title |-> j["title"], value |-> j["value"],
   max |-> j["max"], date |-> j["date"],
   notes |-> IF "notes" \in DOMAIN j THEN j["notes"] ELSE UndefinedStr]

SubjectFromJSON(j) ==
  [id |-> j.id, name |-> j.name, color |-> j.color,
   scores |-> MapSeq(j.scores, ScoreFromJSON)]

JSONparse(text) == MapSeq(text, SubjectFromJSON)

\* localStorage.setItem(key, text)
setItem(store, key, text) ==
  [k \in DOMAIN store \cup {key} |-> IF k = key THEN text ELSE store[k]]

\* the initializer of the subjects state: the saved list, or [] without one
initialSubjects(store) ==
  IF StorageKey \in DOMAIN store THEN JSONparse(store[StorageKey]) ELSE <<>>

\* the persistence effect, run after every render that changed subjects
persist(store, list) == setItem(store, StorageKey, JSONstringify(list))

----------------------------------------------------------------------------
(* Form input.  e.target.value is a text; the texts a user types are drawn *)
(* from small sets.                                                        *)

\* new Date().toISOString().split('T')[0]
Today == "2024-03-01"

\* parseFloat of the text of a number input
parseFloat(text) ==
  CASE text = ""  -> NaN
    [] text = "0" -> 0
    [] text = "2" -> 2

\* the text as it is
untrimmed(text) == text

\* String.prototype.trim
trim(text) == IF text = " " THEN "" ELSE text

\* the form state of a fresh score: only the date is set
FreshScoreForm ==
  [title |-> UndefinedStr, value |-> UndefinedNum, max |-> UndefinedNum,
   date |-> Today, notes |-> UndefinedStr]

\* what a controlled input shows for value={x || ''}: nothing for
\* undefined, NaN and 0 (0 stands for the empty text here)
ShownNumber(x) == IF x \in {UndefinedNum, NaN, 0} THEN 0 ELSE x

ShownText(x) == IF x = UndefinedStr THEN "" ELSE x

\* the browser's constraint validation of the add-subject form: required
SubjectFormValid == newSubjectName # ""

\* an input without constraints
AnyInputValid(x) == TRUE

\* the Max Possible input: required, min="1"
MaxInputValid(x) == ShownNumber(x) # 0 /\ ShownNumber(x) >= 1

\* the Score Obtained input: required, min="0"
ValueInputValid(x) == ShownNumber(x) # 0 /\ ShownNumber(x) >= 0

\* the browser's constraint validation of the add-score form; a submit
\* event reaches handleAddScore only when it passes
ScoreFormValid ==
  /\ ShownText(newScore.title) # ""
  /\ ValueInputValid(newScore.value)
  /\ MaxInputValid(newScore.max)
  /\ newScore.date # ""

----------------------------------------------------------------------------
(* The state after construction *)

\* crypto.randomUUID(): the n-th identifier of this exploration.  The
\* identifiers of earlier sessions are the negative numbers, so that an
\* identifier is never handed out twice.
randomUUID(n) == n

Score(id, title, value, max, date, notes) ==
  [id |-> id, title |-> title, value |-> value, max |-> max, date |-> date,
   notes |-> notes]

Subject(id, name, color, scores) ==
  [id |-> id, name |-> name, color |-> color, scores |-> scores]

\* what an earlier session can have left in localStorage: nothing, or one
\* subject with one score
StoredPhysics ==
  persist(<<>>, << Subject(-1, "Physics", SUBJECT_COLORS[1],
                    << Score(-2, "Midterm", 45, 50, "2024-02-10",
                             UndefinedStr) >>) >>)

SavedStores == { <<>>, StoredPhysics }

\* subjects of earlier sessions with the scores the averages are tried on
OldSubject(k, name, scores) ==
  Subject(0 - 10 * k, name, SUBJECT_COLORS[((k - 1) % 8) + 1],
          [i \in 1..Len(scores) |->
             Score(0 - (10 * k + i), "Test", scores[i][1], scores[i][2],
                   "2024-02-10", UndefinedStr)])

OldSubjects ==
  { OldSubject(1, "Math", << <<80, 100>>, <<45, 50>> >>),
    OldSubject(2, "History", << <<30, 50>> >>),
    OldSubject(3, "Art", <<>>),
    OldSubject(4, "Biology", << <<23, 40>> >>),
    OldSubject(5, "Chemistry", << <<80, 100>> >>) }

OldSubjectNamed(name) == CHOOSE s \in OldSubjects : s.name = name

SevenSubjects == [k \in 1..7 |-> OldSubject(k, "Subject", <<>>)]

\* the lists the subject-level operations start from
StoredLists ==
  { <<>>,
    << OldSubjectNamed("Chemistry"), OldSubjectNamed("History"),
       OldSubjectNamed("Art") >>,
    << OldSubjectNamed("Math"), OldSubjectNamed("Chemistry"),
       OldSubjectNamed("Biology") >>,
    SevenSubjects }

\* the handler that ran last and whether it ran past its early returns
Note(op, done) == [op |-> op, done |-> done]

\* App(): the useState initializers and the first run of the effect
Mount(saved, key) ==
  /\ subjects = initialSubjects(saved)
  /\ view = Dashboard
  /\ isAddSubjectModalOpen = FALSE
  /\ isAddScoreModalOpen = FALSE
  /\ aiInsight = Null
  /\ isAiLoading = FALSE
  /\ newSubjectName = ""
  /\ newScore = FreshScoreForm
  /\ localStorage = persist(saved, initialSubjects(saved))
  /\ apiKey = key
  /\ inflight = <<>>
  /\ nextId = 1
  /\ last = Note("mount", TRUE)

----------------------------------------------------------------------------
(* Handlers *)


SubjectIds == {s.id : s \in Range(subjects)}

ScoreIds == UNION {{sc.id : sc \in Range(s.scores)} : s \in Range(subjects)}

\* subjects.find(s => s.id === view.subjectId), <<>> when there is none
activeSubject ==
  IF view.type = "subject"
  THEN SelectSeq(subjects, LAMBDA s : s.id = view.subjectId)
  ELSE <<>>

\* the list changes and the effect does not run
setSubjectsUnsaved(list) ==
  /\ subjects' = list
  /\ UNCHANGED localStorage

\* the store and its persisted copy after setSubjects(list)
setSubjects(list) ==
  /\ subjects' = list
  /\ localStorage' = persist(localStorage, list)

\* onClick of a subject row of the dashboard
OpenSubject(id) ==
  /\ view.type = "dashboard"
  /\ id \in SubjectIds
  /\ view' = SubjectView(id)
  /\ last' = Note("ui", TRUE)
  /\ UNCHANGED <<subjects, localStorage, isAddSubjectModalOpen,
                 isAddScoreModalOpen, aiInsight, isAiLoading, newSubjectName,
                 newScore, apiKey, inflight, nextId>>

\* onClick of the header logo and of the back button
GoDashboard ==
  /\ view' = Dashboard
  /\ last' = Note("ui", TRUE)
  /\ UNCHANGED <<subjects, localStorage, isAddSubjectModalOpen,
                 isAddScoreModalOpen, aiInsight, isAiLoading, newSubjectName,
                 newScore, apiKey, inflight, nextId>>

\* the Add button of the dashboard and the close and Cancel buttons
SetAddSubjectModal(open) ==
  /\ IF open THEN view.type = "dashboard" ELSE isAddSubjectModalOpen
  /\ isAddSubjectModalOpen' = open
  /\ last' = Note("ui", TRUE)
  /\ UNCHANGED <<subjects, localStorage, view, isAddScoreModalOpen,
                 aiInsight, isAiLoading, newSubjectName, newScore, apiKey,
                 inflight, nextId>>

\* the Add Score button of the detail view and the close and Cancel buttons
SetAddScoreModal(open) ==
  /\ IF open THEN activeSubject # <<>> ELSE isAddScoreModalOpen
  /\ isAddScoreModalOpen' = open
  /\ last' = Note("ui", TRUE)
  /\ UNCHANGED <<subjects, localStorage, view, isAddSubjectModalOpen,
                 aiInsight, isAiLoading, newSubjectName, newScore, apiKey,
                 inflight, nextId>>

\* onChange of the subject name input
ChangeSubjectName(text) ==
  /\ isAddSubjectModalOpen
  /\ newSubjectName' = text
  /\ last' = Note("ui", TRUE)
  /\ UNCHANGED <<subjects, localStorage, view, isAddSubjectModalOpen,
                 isAddScoreModalOpen, aiInsight, isAiLoading, newScore,
                 apiKey, inflight, nextId>>

\* onChange of the inputs of the add-score form
ChangeScoreField(field, x) ==
  /\ isAddScoreModalOpen
  /\ newScore' = [newScore EXCEPT ![field] = x]
  /\ last' = Note("ui", TRUE)
  /\ UNCHANGED <<subjects, localStorage, view, isAddSubjectModalOpen,
                 isAddScoreModalOpen, aiInsight, isAiLoading, newSubjectName,
                 apiKey, inflight, nextId>>

ChangeScoreForm(titles, values, maxes, dates, notes) ==
  \/ \E t \in titles : ChangeScoreField("title", t)
  \/ \E t \in values : ChangeScoreField("value", parseFloat(t))
  \/ \E t \in maxes : ChangeScoreField("max", parseFloat(t))
  \/ \E t \in dates : ChangeScoreField("date", t)
  \/ \E t \in notes : ChangeScoreField("notes", t)

\* the subject with the color after the next one
newSubjectNextColor(id, name, n) ==
  [id |-> id, name |-> name, scores |-> <<>>,
   color |-> SUBJECT_COLORS[((n + 1) % Len(SUBJECT_COLORS)) + 1]]

\* the subject handleAddSubject builds for a list of n subjects
newSubject(id, name, n) ==
  Subject(id, name, SUBJECT_COLORS[(n % Len(SUBJECT_COLORS)) + 1], <<>>)

\* App.tsx handleAddSubject
handleAddSubject ==
  /\ IF trim(newSubjectName) = ""
     THEN /\ last' = Note("handleAddSubject", FALSE)
          /\ UNCHANGED <<subjects, localStorage, newSubjectName,
                         isAddSubjectModalOpen, nextId>>
     ELSE /\ nextId < MaxId
          /\ setSubjects(Append(subjects,
               newSubject(randomUUID(nextId), newSubjectName, Len(subjects))))
          /\ nextId' = nextId + 1
          /\ newSubjectName' = ""
          /\ isAddSubjectModalOpen' = FALSE
          /\ last' = Note("handleAddSubject", TRUE)
  /\ UNCHANGED <<view, isAddScoreModalOpen, aiInsight, isAiLoading, newScore,
                 apiKey, inflight>>

\* subjects.filter(s => s.id !== id)
withoutSubject(list, id) == SelectSeq(list, LAMBDA s : s.id # id)

\* the detail view of the deleted subject stays
viewKept(v, id) == v

\* the view after a confirmed delete of subject id
viewAfterDelete(v, id) ==
  IF v.type = "subject" /\ v.subjectId = id THEN Dashboard ELSE v

\* onClick of the delete button of the detail view; confirmed is the answer
\* to confirm()
handleDeleteSubject(confirmed) ==
  /\ activeSubject # <<>>
  /\ LET id == activeSubject[1].id
     IN  /\ IF confirmed
            THEN /\ setSubjects(withoutSubject(subjects, id))
                 /\ view' = viewAfterDelete(view, id)
            ELSE UNCHANGED <<subjects, localStorage, view>>
         /\ last' = Note("handleDeleteSubject", confirmed)
  /\ UNCHANGED <<isAddSubjectModalOpen, isAddScoreModalOpen, aiInsight,
                 isAiLoading, newSubjectName, newScore, apiKey, inflight,
                 nextId>>

\* Number(x) of a numeric form field
Number(x) == ToNumber(x)

\* the score appended to every subject
withScoreAddedToAll(list, subjectId, score) ==
  [i \in 1..Len(list) |->
     [list[i] EXCEPT !.scores = Append(list[i].scores, score)]]

\* subjects.map: the score appended to the subject with the given id
withScoreAdded(list, subjectId, score) ==
  MapSeq(list, LAMBDA s : IF s.id = subjectId
                          THEN [s EXCEPT !.scores = Append(s.scores, score)]
                          ELSE s)

\* App.tsx handleAddScore
handleAddScore ==
  /\ IF \/ view.type # "subject"
        \/ newScore.title \in {UndefinedStr, ""}
        \/ newScore.value = UndefinedNum
        \/ newScore.max = UndefinedNum
     THEN /\ last' = Note("handleAddScore", FALSE)
          /\ UNCHANGED <<subjects, localStorage, newScore,
                         isAddScoreModalOpen, nextId>>
     ELSE /\ nextId < MaxId
          /\ setSubjects(withScoreAdded(subjects, view.subjectId,
               Score(randomUUID(nextId), newScore.title,
                     Number(newScore.value), Number(newScore.max),
                     IF newScore.date = "" THEN Today ELSE newScore.date,
                     newScore.notes)))
          /\ nextId' = nextId + 1
          /\ newScore' = FreshScoreForm
          /\ isAddScoreModalOpen' = FALSE
          /\ last' = Note("handleAddScore", TRUE)
  /\ UNCHANGED <<view, isAddSubjectModalOpen, aiInsight, isAiLoading,
                 newSubjectName, apiKey, inflight>>

\* the filter with its test inverted: only the score with the id is kept
withOnlyScore(list, subjectId, scoreId) ==
  [i \in 1..Len(list) |->
     IF list[i].id = subjectId
     THEN [list[i] EXCEPT !.scores =
             SelectSeq(list[i].scores, LAMBDA sc : sc.id = scoreId)]
     ELSE list[i]]

\* subjects.map: the scores with the given id filtered out of one subject
withoutScore(list, subjectId, scoreId) ==
  MapSeq(list, LAMBDA s :
    IF s.id = subjectId
    THEN [s EXCEPT !.scores = SelectSeq(s.scores, LAMBDA sc : sc.id # scoreId)]
    ELSE s)

\* onClick of the delete button of a row of the score list
handleDeleteScore(subjectId, scoreId) ==
  /\ activeSubject # <<>>
  /\ subjectId = activeSubject[1].id
  /\ scoreId \in {sc.id : sc \in Range(activeSubject[1].scores)}
  /\ setSubjects(withoutScore(subjects, subjectId, scoreId))
  /\ last' = Note("handleDeleteScore", TRUE)
  /\ UNCHANGED <<view, isAddSubjectModalOpen, isAddScoreModalOpen, aiInsight,
                 isAiLoading, newSubjectName, newScore, apiKey, inflight,
                 nextId>>

\* the browser refuses to submit a form that fails its validation: no
\* submit event, no handler, nothing changes
blocked(op) ==
  /\ last' = Note(op, FALSE)
  /\ UNCHANGED <<subjects, localStorage, view, isAddSubjectModalOpen,
                 isAddScoreModalOpen, aiInsight, isAiLoading, newSubjectName,
                 newScore, apiKey, inflight, nextId>>

\* the Create Subject button: onSubmit runs only for a valid form
submitSubjectForm ==
  /\ isAddSubjectModalOpen
  /\ IF SubjectFormValid THEN handleAddSubject ELSE blocked("handleAddSubject")

\* the Add Score button: onSubmit runs only for a valid form
submitScoreForm ==
  /\ isAddScoreModalOpen
  /\ IF ScoreFormValid THEN handleAddScore ELSE blocked("handleAddScore")

\* the page is loaded again: every state is built anew from localStorage
Reload ==
  /\ subjects' = initialSubjects(localStorage)
  /\ view' = Dashboard
  /\ isAddSubjectModalOpen' = FALSE
  /\ isAddScoreModalOpen' = FALSE
  /\ aiInsight' = Null
  /\ isAiLoading' = FALSE
  /\ newSubjectName' = ""
  /\ newScore' = FreshScoreForm
  /\ localStorage' = persist(localStorage, initialSubjects(localStorage))
  /\ inflight' = <<>>
  /\ last' = Note("mount", TRUE)
  /\ UNCHANGED <<apiKey, nextId>>

----------------------------------------------------------------------------
(* The insight requester *)

NoKeyInsight ==
  [analysis |-> "API Key not configured. Please check your environment settings.",
   tips |-> <<"Configure API Key to see insights.">>,
   sentiment |-> "neutral"]

PlaceholderInsight ==
  [analysis |-> "No data available yet. Add some subjects and scores to get started!",
   tips |-> <<"Add a subject like 'Mathematics' or 'History'.",
              "Log your latest quiz results.">>,
   sentiment |-> "neutral"]

FallbackInsight ==
  [analysis |-> "Sorry, I couldn't analyze your data at the moment. Please try again later.",
   tips |-> <<"Check your internet connection.",
              "Ensure your API key is valid.">>,
   sentiment |-> "neutral"]

\* the subjects with scores, as the prompt carries them
activeSubjects(list) ==
  MapSeq(SelectSeq(list, HasScores), LAMBDA s :
    [name |-> s.name,
     scores |-> MapSeq(s.scores, LAMBDA sc :
                  [title |-> sc.title, score |-> sc.value, max |-> sc.max,
                   date |-> sc.date])])

\* the request is sent without a look at the scores
beforeAwaitUnfiltered(key, list) ==
  IF key = "" THEN [send |-> FALSE, insight |-> NoKeyInsight]
  ELSE [send |-> TRUE, prompt |-> activeSubjects(list)]

\* what generateAcademicInsight does before its await: it resolves at once
\* with a fixed insight, or sends one request carrying the prompt data
beforeAwait(key, list) ==
  IF key = "" THEN [send |-> FALSE, insight |-> NoKeyInsight]
  ELSE IF Len(activeSubjects(list)) = 0
       THEN [send |-> FALSE, insight |-> PlaceholderInsight]
       ELSE [send |-> TRUE, prompt |-> activeSubjects(list)]

\* how the external service can answer: the call rejects, or resolves with
\* a response whose text is one of these
ReplyTexts ==
  { "", "Service unavailable", "{\"analysis\":\"Solid work\"}",
    "{\"analysis\":\"Solid work\",\"tips\":[\"Revise\"],\"sentiment\":\"positive\"}" }

ServiceOutcomes ==
  {[rejects |-> TRUE, text |-> ""]}
    \cup {[rejects |-> FALSE, text |-> t] : t \in ReplyTexts}

\* whether JSON.parse(text) returns rather than throws
Parses(text) == text \notin {"", "Service unavailable"}

\* JSON.parse(text) of a text that parses
ParsedReply(text) ==
  IF text = "{\"analysis\":\"Solid work\"}"
  THEN [analysis |-> "Solid work"]
  ELSE [analysis |-> "Solid work", tips |-> <<"Revise">>,
        sentiment |-> "positive"]

\* what generateAcademicInsight resolves with after its await
afterAwait(outcome) ==
  IF outcome.rejects THEN FallbackInsight
  ELSE IF outcome.text = "" THEN FallbackInsight
  ELSE IF ~Parses(outcome.text) THEN FallbackInsight
  ELSE ParsedReply(outcome.text)

\* the button is never disabled
generateAlways == TRUE

\* whether the Generate Insights button takes a click
generateEnabled == ~isAiLoading

\* onClick of Generate Insights, up to the point where the handler either
\* has finished (no request was sent: the await resumes before any other
\* event) or waits for the service
fetchAiInsight ==
  /\ view.type = "dashboard"
  /\ generateEnabled
  /\ LET r == beforeAwait(apiKey, subjects)
     IN  IF r.send
         THEN /\ isAiLoading' = TRUE
              /\ inflight' = Append(inflight, r.prompt)
              /\ UNCHANGED aiInsight
         ELSE /\ isAiLoading' = FALSE
              /\ aiInsight' = r.insight
              /\ UNCHANGED inflight
  /\ last' = Note("fetchAiInsight", TRUE)
  /\ UNCHANGED <<subjects, localStorage, view, isAddSubjectModalOpen,
                 isAddScoreModalOpen, newSubjectName, newScore, apiKey,
                 nextId>>

\* the answer is shown and the loading flag is left set
insightArrivesStillLoading(i, outcome) ==
  /\ i \in 1..Len(inflight)
  /\ inflight' = SubSeq(inflight, 1, i - 1) \o SubSeq(inflight, i + 1, Len(inflight))
  /\ aiInsight' = afterAwait(outcome)
  /\ last' = Note("insightArrives", TRUE)
  /\ UNCHANGED <<subjects, localStorage, view, isAddSubjectModalOpen,
                 isAddScoreModalOpen, newSubjectName, newScore, apiKey,
                 nextId, isAiLoading>>

\* the service answers request i and fetchAiInsight resumes
insightArrives(i, outcome) ==
  /\ i \in 1..Len(inflight)
  /\ inflight' = SubSeq(inflight, 1, i - 1) \o SubSeq(inflight, i + 1, Len(inflight))
  /\ aiInsight' = afterAwait(outcome)
  /\ isAiLoading' = FALSE
  /\ last' = Note("insightArrives", TRUE)
  /\ UNCHANGED <<subjects, localStorage, view, isAddSubjectModalOpen,
                 isAddScoreModalOpen, newSubjectName, newScore, apiKey,
                 nextId>>

----------------------------------------------------------------------------
(* Specifications *)

Navigate ==
  \/ \E id \in SubjectIds : OpenSubject(id)
  \/ GoDashboard

SubjectForm(names) ==
  \/ \E open \in BOOLEAN : SetAddSubjectModal(open)
  \/ \E text \in names : ChangeSubjectName(text)
  \/ submitSubjectForm

ScoreForm(titles, values, maxes, dates, notes) ==
  \/ \E open \in BOOLEAN : SetAddScoreModal(open)
  \/ ChangeScoreForm(titles, values, maxes, dates, notes)
  \/ submitScoreForm

Delete ==
  \/ \E confirmed \in BOOLEAN : handleDeleteSubject(confirmed)
  \/ \E sid \in SubjectIds, scid \in ScoreIds :
       handleDeleteScore(sid, scid)

Insight ==
  \/ fetchAiInsight
  \/ \E i \in 1..Len(inflight), outcome \in ServiceOutcomes :
       insightArrives(i, outcome)

\* the store as a whole: navigation, both forms, the four mutations, reload
Init == \E saved \in SavedStores : Mount(saved, "")

Next ==
  \/ Navigate
  \/ SubjectForm({"Math"})
  \/ ScoreForm({"Quiz"}, {"2"}, {"2"}, {}, {"revise"})
  \/ Delete
  \/ Reload

Spec == Init /\ [][Next]_vars

\* the insight requester beside the subject-level operations
InitInsight == \E saved \in SavedStores, key \in {"", "key"} : Mount(saved, key)

NextInsight ==
  \/ Navigate
  \/ SubjectForm({"", " ", "Math"})
  \/ Delete
  \/ Insight
  \/ Reload

SpecInsight == InitInsight /\ [][NextInsight]_vars

\* the add-score form with everything a user can leave in its fields
InitScores == Mount(StoredPhysics, "")

NextScores ==
  \/ Navigate
  \/ ScoreForm({"", "Quiz"}, {"", "2"}, {"", "0", "2"}, {"2024-01-15"},
               {"revise"})
  \/ Delete
  \/ Reload

SpecScores == InitScores /\ [][NextScores]_vars

\* the subject-level operations on the lists an earlier session can have
\* stored
InitStored == \E list \in StoredLists : Mount(persist(<<>>, list), "")

NextStored ==
  \/ Navigate
  \/ SubjectForm({"Math"})
  \/ Delete
  \/ Reload

SpecStored == InitStored /\ [][NextStored]_vars

\* subjects added and deleted on the stored lists whose subjects have
\* scores, for the averages
AverageLists == StoredLists \ {<<>>, SevenSubjects}

InitAverages == \E list \in AverageLists : Mount(persist(<<>>, list), "")

NextAverages ==
  \/ Navigate
  \/ SubjectForm({"Math"})
  \/ \E confirmed \in BOOLEAN : handleDeleteSubject(confirmed)

SpecAverages == InitAverages /\ [][NextAverages]_vars

----------------------------------------------------------------------------
(* Properties *)

\* the sum of f over the indices of a sequence, taken in any order
RECURSIVE SumOver(_, _)
SumOver(f, idx) ==
  IF idx = {} THEN 0
  ELSE LET i == CHOOSE j \in idx : TRUE
       IN  f[i] + SumOver(f, idx \ {i})

\* C1: for every subject, calculateSubjectAverage is 0 for an empty score
\* list and otherwise round(100 * (sum of value) / (sum of max)), the
\* quotient taken exactly and a half rounded up.
C1_AverageIsRoundedRatio ==
  \A s \in Range(subjects) :
    calculateSubjectAverage(s) =
      IF Len(s.scores) = 0 THEN 0
      ELSE ExactRoundedPercent(
             SumOver([i \in 1..Len(s.scores) |-> s.scores[i].value],
                     1..Len(s.scores)),
             SumOver([i \in 1..Len(s.scores) |-> s.scores[i].max],
                     1..Len(s.scores)))

\* C2: overallAverage is 0 when no subject has scores and otherwise the
\* mean, a half rounded up, of calculateSubjectAverage over the subjects
\* that have scores; a subject without scores, removed from the list or
\* appended to it, does not change it.
C2_OverallAverage ==
  LET scored == {i \in 1..Len(subjects) : Len(subjects[i].scores) > 0}
      n      == Cardinality(scored)
      sum    == SumOver([i \in 1..Len(subjects) |->
                           calculateSubjectAverage(subjects[i])], scored)
  IN  /\ n = 0 => overallAverage = 0
      /\ n > 0 => /\ 2 * n * overallAverage <= 2 * sum + n
                  /\ 2 * sum + n < 2 * n * (overallAverage + 1)
      /\ \A i \in 1..Len(subjects) \ scored :
           overallAverageOf(withoutSubject(subjects, subjects[i].id))
             = overallAverage
      /\ overallAverageOf(Append(subjects,
                                 newSubject(0, "Math", Len(subjects))))
           = overallAverage

\* C2's example: averages 80 and 60 and a subject without scores give 70.
C2_Witness ==
  /\ Len(subjects) = 3
  /\ {calculateSubjectAverage(s) : s \in Range(subjects)} = {80, 60, 0}
  /\ \E s \in Range(subjects) : Len(s.scores) = 0
  /\ overallAverage = 70

\* C3: a confirmed delete of the subject X removes X and its scores from
\* the store and its persisted copy, keeps every other subject as it was
\* and in its place, and turns the detail view of X into the dashboard; a
\* declined delete changes neither the store nor the view.
C3_DeleteSubject ==
  [][last'.op = "handleDeleteSubject" =>
       LET X == activeSubject[1]
       IN  IF last'.done
           THEN /\ X.id \notin {s.id : s \in Range(subjects')}
                /\ \A sc \in Range(X.scores) :
                     \A s \in Range(subjects') :
                       sc.id \notin {c.id : c \in Range(s.scores)}
                /\ \E i \in 1..Len(subjects) :
                     /\ subjects[i].id = X.id
                     /\ subjects' = SubSeq(subjects, 1, i - 1)
                                      \o SubSeq(subjects, i + 1, Len(subjects))
                /\ initialSubjects(localStorage') = subjects'
                /\ view = SubjectView(X.id) => view' = Dashboard
           ELSE UNCHANGED <<subjects, localStorage, view>>]_vars

\* a confirmed delete has removed a subject with scores and left others
C3_Witness ==
  /\ last = Note("handleDeleteSubject", TRUE)
  /\ view = Dashboard
  /\ \E s \in Range(subjects) : Len(s.scores) > 0
  /\ Len(subjects) = 2

\* no subject of the list has a score
NoScores(list) == \A s \in Range(list) : Len(s.scores) = 0

IsCompleteInsight(x) == DOMAIN x = {"analysis", "tips", "sentiment"}

\* C5: whatever the service answers to a request (a rejection, an empty
\* reply, a malformed or wrongly-shaped reply), the insight the request
\* resolves with is the fixed fallback insight or a complete, validated
\* insight, never a partial one.
C5_FailuresFallBack ==
  [][last'.op = "insightArrives" =>
       \/ aiInsight' = FallbackInsight
       \/ IsCompleteInsight(aiInsight')]_vars

\* C6: at most one insight request is in flight, and only while isAiLoading
\* is set; Generate Insights does not act while isAiLoading is set, and one
\* Generate Insights sends at most one request.
C6_OneRequestInFlight ==
  /\ [](/\ Len(inflight) <= 1
        /\ Len(inflight) = 1 => isAiLoading
        /\ isAiLoading => ~ENABLED fetchAiInsight)
  /\ [][last'.op = "fetchAiInsight" =>
          /\ ~isAiLoading
          /\ Len(inflight') <= Len(inflight) + 1]_vars

\* a request is in flight while the dashboard shows the button
C6_Witness ==
  /\ isAiLoading
  /\ Len(inflight) = 1
  /\ view = Dashboard
  /\ last.op # "fetchAiInsight"

\* C7: the only key of the storage is 'scholarTrack_subjects', its value is
\* the serialization of the subject list in memory, a start from the
\* storage yields that same list, and a start without the key yields the
\* empty list.
C7_PersistedIsCurrent ==
  /\ DOMAIN localStorage = {"scholarTrack_subjects"}
  /\ localStorage["scholarTrack_subjects"] = JSONstringify(subjects)
  /\ initialSubjects(localStorage) = subjects
  /\ initialSubjects(<<>>) = <<>>

\* a score was added, and the list holds scores with and without notes
C7_Witness ==
  /\ last = Note("handleAddScore", TRUE)
  /\ \E s \in Range(subjects) :
       /\ \E sc \in Range(s.scores) : sc.notes = UndefinedStr
       /\ \E sc \in Range(s.scores) : sc.notes = "revise"

\* C8: a submit of the add-subject form whose name is empty or one blank
\* leaves the subject list, its persisted copy, the view, the name field
\* and both modals as they were.
C8_BlankNameIgnored ==
  [][last'.op = "handleAddSubject" /\ newSubjectName \in {"", " "} =>
       UNCHANGED <<subjects, localStorage, view, newSubjectName,
                   isAddSubjectModalOpen, isAddScoreModalOpen,
                   newScore>>]_vars

\* handleAddSubject ran on a name of one blank and returned early
C8_Witness ==
  /\ last = Note("handleAddSubject", FALSE)
  /\ newSubjectName = " "
  /\ isAddSubjectModalOpen

\* C9: add subject with a non-blank name appends exactly one subject: the
\* subjects before it are unchanged, its score list is empty, its
\* identifier is none of the identifiers in the list before, and its color
\* is SUBJECT_COLORS[n mod 8] for the n subjects before the add.
C9_AddSubjectAppends ==
  [][last' = Note("handleAddSubject", TRUE) =>
       LET n == Len(subjects)
       IN  /\ Len(subjects') = n + 1
           /\ SubSeq(subjects', 1, n) = subjects
           /\ subjects'[n + 1].scores = <<>>
           /\ subjects'[n + 1].name = newSubjectName
           /\ subjects'[n + 1].id \notin {subjects[i].id : i \in 1..n}
           /\ subjects'[n + 1].color =
                <<"bg-blue-500", "bg-emerald-500", "bg-violet-500",
                  "bg-rose-500", "bg-amber-500", "bg-cyan-500",
                  "bg-fuchsia-500", "bg-indigo-500">>[(n % 8) + 1]]_vars

\* the ninth subject was added and took the first color again
C9_Witness ==
  /\ last = Note("handleAddSubject", TRUE)
  /\ Len(subjects) = 9
  /\ subjects[9].color = "bg-blue-500"
  /\ subjects[8].color = "bg-indigo-500"

\* C10: wherever a percentage is computed, the divisor is greater than 0
\* or the division is guarded and the result is 0: the sum of max of the
\* subject average and of the bar chart, the max of every score of the
\* score list and of the trend chart.
C10_DivisorPositive ==
  \A s \in Range(subjects) :
    /\ \/ GreaterThanZero(SumField(s.scores, ScoreMax))
       \/ calculateSubjectAverage(s) = 0 /\ barAverage(s) = 0
    /\ \A sc \in Range(s.scores) : IsNumber(sc.max) /\ sc.max > 0

\* the detail view lists a score that went through the add-score form
C10_Witness ==
  /\ last = Note("handleAddScore", TRUE)
  /\ activeSubject # <<>>
  /\ Len(activeSubject[1].scores) >= 2
  /\ \E sc \in Range(activeSubject[1].scores) : sc.max = 2

\* C11: a submit of the add-score form whose title, obtained value or
\* maximum is absent (never entered: undefined; entered and cleared: the
\* empty text, NaN), or a submit outside a subject detail view, adds no
\* score: the subject list and its persisted copy are unchanged.
C11_IncompleteScoreIgnored ==
  [][/\ last'.op = "handleAddScore"
     /\ \/ newScore.title \in {UndefinedStr, ""}
        \/ newScore.value \in {UndefinedNum, NaN}
        \/ newScore.max \in {UndefinedNum, NaN}
        \/ view.type # "subject"
     => /\ subjects' = subjects
        /\ localStorage' = localStorage]_vars

\* the form was submitted in a detail view with the obtained value cleared
\* and the other fields filled in
C11_Witness ==
  /\ last = Note("handleAddScore", FALSE)
  /\ view.type = "subject"
  /\ isAddScoreModalOpen
  /\ newScore.title = "Quiz"
  /\ newScore.value = NaN
  /\ newScore.max = 2

\* C12: the score list of the detail view shows the scores of the active
\* subject in non-increasing date order, as a permutation of the stored
\* scores, whatever the order they were added in; the stored order is as
\* it was after the render.
C12_NewestFirst ==
  activeSubject # <<>> =>
    LET stored == activeSubject[1].scores
        r      == renderScoreList(stored)
    IN  /\ \A i, j \in 1..Len(r.rows) :
             i < j => getTime(r.rows[i].date) >= getTime(r.rows[j].date)
        /\ Len(r.rows) = Len(stored)
        /\ \A sc \in Range(stored) :
             Cardinality({i \in 1..Len(r.rows) : r.rows[i] = sc})
               = Cardinality({i \in 1..Len(stored) : stored[i] = sc})
        /\ r.scores = stored

\* three scores stored oldest, newest, middle are shown in another order
C12_Witness ==
  /\ activeSubject # <<>>
  /\ Len(activeSubject[1].scores) = 3
  /\ activeSubject[1].scores[1].date = "2024-02-10"
  /\ activeSubject[1].scores[2].date = "2024-01-15"
  /\ activeSubject[1].scores[3].date = "2024-03-01"
  /\ renderScoreList(activeSubject[1].scores).rows # activeSubject[1].scores

\* the scores of every subject of a list
AllScores(list) == UNION {Range(s.scores) : s \in Range(list)}

\* C13: an add-score that runs to its end in the detail view of X appends
\* exactly one score, with a new id, at the end of the score list of X and
\* leaves the scores X had (fields and order), the id, name and color of
\* X and every other subject as they were; and no step of any operation
\* changes a field of a score that exists before and after it.
C13_AddScoreAppends ==
  [][/\ last' = Note("handleAddScore", TRUE) =>
          /\ Len(subjects') = Len(subjects)
          /\ \E i \in 1..Len(subjects) :
               /\ subjects[i].id = view.subjectId
               /\ Len(subjects'[i].scores) = Len(subjects[i].scores) + 1
               /\ SubSeq(subjects'[i].scores, 1, Len(subjects[i].scores))
                    = subjects[i].scores
               /\ subjects'[i].scores[Len(subjects'[i].scores)].id
                    \notin {sc.id : sc \in AllScores(subjects)}
               /\ subjects'[i].id = subjects[i].id
               /\ subjects'[i].name = subjects[i].name
               /\ subjects'[i].color = subjects[i].color
               /\ \A k \in 1..Len(subjects) \ {i} : subjects'[k] = subjects[k]
     /\ \A old \in AllScores(subjects), new \in AllScores(subjects') :
          old.id = new.id => old = new]_vars

\* a score was added to a subject that had one, beside another subject
C13_Witness ==
  /\ last = Note("handleAddScore", TRUE)
  /\ Len(subjects) = 2
  /\ activeSubject # <<>>
  /\ Len(activeSubject[1].scores) = 2
  /\ activeSubject[1].scores[2].title = "Quiz"

\* C14: delete score (subjectId, scoreId) takes effect at once, without a
\* confirmation: it removes from the subject subjectId exactly the score
\* scoreId, keeps the other scores of that subject in their order, and
\* leaves the rest of that subject, every other subject and the view as
\* they were; for a subjectId or a scoreId that names no subject or no
\* score of it, the list it produces is the list it was given.
C14_DeleteScore ==
  /\ [][last'.op = "handleDeleteScore" =>
          /\ last'.done
          /\ view' = view
          /\ Len(subjects') = Len(subjects)
          /\ \E i \in 1..Len(subjects) :
               /\ subjects[i].id = view.subjectId
               /\ \E j \in 1..Len(subjects[i].scores) :
                    /\ subjects'[i].scores =
                         SubSeq(subjects[i].scores, 1, j - 1)
                           \o SubSeq(subjects[i].scores, j + 1,
                                     Len(subjects[i].scores))
                    /\ subjects[i].scores[j].id
                         \notin {sc.id : sc \in Range(subjects'[i].scores)}
               /\ subjects'[i] =
                    [subjects[i] EXCEPT !.scores = subjects'[i].scores]
               /\ \A k \in 1..Len(subjects) \ {i} :
                    subjects'[k] = subjects[k]]_vars
  /\ [](\A sid \in {s.id : s \in Range(subjects)} \cup {0} :
          \A scid \in {sc.id : sc \in AllScores(subjects)} \cup {0} :
            (\A s \in Range(subjects) :
               s.id = sid => scid \notin {sc.id : sc \in Range(s.scores)})
              => withoutScore(subjects, sid, scid) = subjects)

\* the first of the two scores of a subject was deleted, beside two other
\* subjects
C14_Witness ==
  /\ last = Note("handleDeleteScore", TRUE)
  /\ Len(subjects) = 3
  /\ activeSubject # <<>>
  /\ Len(activeSubject[1].scores) = 1
  /\ activeSubject[1].scores[1].value = 45
  /\ activeSubject[1].name = "Math"

\* C15: in every reachable state a subject detail view names a subject
\* that is in the store, so activeSubject is found and the detail view
\* renders it.
C15_ViewNamesSubject ==
  view.type = "subject" =>
    /\ view.subjectId \in {s.id : s \in Range(subjects)}
    /\ activeSubject # <<>>

\* a delete was declined in a detail view, after another subject had been
\* added
C15_Witness ==
  /\ view.type = "subject"
  /\ last = Note("handleDeleteSubject", FALSE)
  /\ Len(subjects) = 2

\* C16: the start and the completion of an insight request leave the
\* subject list, its persisted copy and the view as they are; the
\* completion sets aiInsight, clears isAiLoading and changes nothing else
\* of the page; the request carries the scored subjects of the list as it
\* was at the start, and no later mutation changes a request in flight.
C16_InsightLeavesStore ==
  [][/\ last'.op \in {"fetchAiInsight", "insightArrives"} =>
          UNCHANGED <<subjects, localStorage, view>>
     /\ last'.op = "insightArrives" =>
          /\ ~isAiLoading'
          /\ aiInsight' # Null
          /\ Len(inflight') = Len(inflight) - 1
          /\ UNCHANGED <<isAddSubjectModalOpen, isAddScoreModalOpen,
                         newSubjectName, newScore>>
     /\ last'.op = "fetchAiInsight" /\ Len(inflight') > Len(inflight) =>
          inflight'[Len(inflight')] = activeSubjects(subjects)
     /\ Len(inflight) = 1 /\ Len(inflight') = 1 => inflight' = inflight]_vars

\* a request sent for a list with scores completed after the list had
\* lost them
C16_Witness ==
  /\ last.op = "insightArrives"
  /\ IsCompleteInsight(aiInsight)
  /\ aiInsight # FallbackInsight
  /\ NoScores(subjects)
  /\ ~isAiLoading

====
